---- MODULE Spec2Model ----
(***************************************************************************)
(* VaxSys: the role-gated administrative server actions (getUsers,         *)
(* getCenters, updateUserRole, verifyCenter, rejectCenter) and the signup  *)
(* server actions (signup, resendVerificationEmail), over the document     *)
(* store (User and Center collections) and the identity provider (Firebase *)
(* Authentication accounts).                                               *)
(*                                                                         *)
(* One action is one completed call of a server action.  The argument F of *)
(* a handler is the set of upstream calls (awaits) that reject during the  *)
(* call.  Spec runs the handlers with every upstream call answering;       *)
(* SpecFaults lets any of them reject.  revalidatePath is synchronous and  *)
(* is called with a constant path from within a server action: it is       *)
(* recorded among the calls made and never rejects.                        *)
(*                                                                         *)
(* SpecSignups and SpecPrivileged follow calls await by await, with the    *)
(* steps of the calls in progress interleaving: SpecSignups the signup     *)
(* calls, SpecPrivileged the privileged calls of two administrators.       *)
(***************************************************************************)
EXTENDS Naturals, Sequences, FiniteSets, TLC

VARIABLES
    users,      \* User collection: store _id -> document
    centers,    \* Center collection: store _id -> document
    accounts,   \* identity provider: account uid -> email
    created,    \* number of accounts the identity provider has created
    adminApps,  \* admin.apps.length: the process-wide identity-provider admin client
    currentUser,\* auth.currentUser of the server's identity-provider client
    last,       \* the call being answered: operation, input, result, upstream calls made
    prev,       \* the stores and the identity provider as that call found them
    revoked,    \* history: users a role assignment took 'authority' from, until they regain it
    deleted,    \* history: ids of the centers rejectCenter has deleted
    running     \* calls in progress, when calls are followed step by step: slot -> call

vars ==
    <<users, centers, accounts, created, adminApps, currentUser, last, prev, revoked, deleted,
      running>>

----------------------------------------------------------------------------
(* Bounds *)

\* accounts the identity provider creates for signup calls
MaxSignups == 1

\* calls in progress at the same time, when calls are followed step by step
MaxCalls == 2

\* accounts the identity provider creates for signup calls that are followed step by step
MaxAccounts == 2

----------------------------------------------------------------------------
(* Values *)

Roles == {"citizen", "authority", "center"}

\* role a new User document gets when none is given
DefaultRole == "citizen"

\* a document lookup that found nothing
Null == "null"

\* a center document without a linked identity-provider account
NoUid == "no-uid"

\* an input field that is not a string
NotAString == "not-a-string"

\* store ids, in the order documents are inserted
UserIds == <<"u1", "u2", "u3", "u4", "u5">>

\* center ids a caller may name: x0 is the id of no center
CenterIds == {"x1", "x2", "x0"}

\* uids the identity provider hands out, in order
NewUids == <<"uidN1", "uidN2", "uidN3", "uidN4">>

Emails == {"a@vax", "n@vax", "m@vax"}

Passwords == {"weak", "strong"}

InvalidInput == "Invalid input data."
PermissionDenied == "Permission denied. Not an administrator."
TargetNotFound == "Target user not found."
SelfModification == "Administrators cannot change their own role."
UpdateRoleInternal == "An internal error occurred while updating the role."
CenterNotFound == "Center not found."
VerifyInternal == "An internal error occurred while verifying the center."
RejectInternal == "An internal error occurred while rejecting the center."
FetchUsersFailed == "Failed to fetch users."
FetchCentersFailed == "Failed to fetch centers."
SignupUnexpected == "An unexpected error occurred during signup."
SignupEmailExists == "A user with this email already exists."
SignupWeakPassword == "The password is too weak. Please choose a stronger password."
ResendNotSignedIn == "Could not send verification email. Please try logging in again."
ResendFailed == "Could not resend verification email."

NoError == "none"

Success == [success |-> TRUE, error |-> NoError]
Failure(msg) == [success |-> FALSE, error |-> msg]

\* a rejected call that leaves the handler as an exception instead of a result
Unhandled == "unhandled"

\* Faulty variant: the catch block throws again
CaughtRethrown(msg) == [success |-> FALSE, error |-> Unhandled]

\* catch (error) { console.error(...); return { success: false, error: msg } }
Caught(msg) == Failure(msg)

\* auth.currentUser when nobody has signed in on the server's client
NoUser == [uid |-> Null, email |-> Null]

----------------------------------------------------------------------------
(* Document store queries *)

Index(id) == CHOOSE i \in 1..Len(UserIds) : UserIds[i] = id

\* User.findOne({ firebaseUid }): the first matching document, or null
findOne(us, uid) ==
    LET hits == {id \in DOMAIN us : us[id].firebaseUid = uid}
    IN IF hits = {} THEN Null
       ELSE CHOOSE id \in hits : \A o \in hits : Index(id) <= Index(o)

\* Model.findById(id): the document with that _id, or null
findById(coll, id) == IF id \in DOMAIN coll THEN id ELSE Null

\* the outcome of a handler that returns res after the upstream calls `calls`, of which
\* `thrown` rejected, and leaves both stores and the identity provider as they are
Return(res, calls, thrown) ==
    [result |-> res, users |-> users, centers |-> centers, accounts |-> accounts,
     created |-> created, adminApps |-> adminApps, currentUser |-> currentUser,
     calls |-> calls, thrown |-> thrown, payload |-> Null, code |-> NoError]

----------------------------------------------------------------------------
(* getUsers, getCenters *)

\* .select('firebaseUid firstName lastName email role')
SelectUser(doc) == [firebaseUid |-> doc.firebaseUid, email |-> doc.email, role |-> doc.role]

\* .select('center_name email location verified')
SelectCenter(doc) == [verified |-> doc.verified]

getUsers(F) ==
    IF "dbConnect" \in F THEN Return(Caught(FetchUsersFailed), <<"dbConnect">>, {"dbConnect"})
    ELSE IF "User.find" \in F
    THEN Return(Caught(FetchUsersFailed), <<"dbConnect", "User.find">>, {"User.find"})
    ELSE [Return(Success, <<"dbConnect", "User.find">>, {})
             EXCEPT !.payload = [id \in DOMAIN users |-> SelectUser(users[id])]]

getCenters(F) ==
    IF "dbConnect" \in F THEN Return(Caught(FetchCentersFailed), <<"dbConnect">>, {"dbConnect"})
    ELSE IF "Center.find" \in F
    THEN Return(Caught(FetchCentersFailed), <<"dbConnect", "Center.find">>, {"Center.find"})
    ELSE [Return(Success, <<"dbConnect", "Center.find">>, {})
             EXCEPT !.payload = [id \in DOMAIN centers |-> SelectCenter(centers[id])]]

----------------------------------------------------------------------------
(* updateUserRole *)

\* Faulty variant: the input is used as it comes, without validation
updateUserRoleSchemaSkipped(data) == TRUE

\* z.object({ targetUserId: z.string(), newRole: z.enum([...]), adminFirebaseUid: z.string() })
updateUserRoleSchema(data) ==
    /\ data.targetUserId /= NotAString
    /\ data.newRole \in Roles
    /\ data.adminFirebaseUid /= NotAString

\* Faulty variant: the check refuses citizens only
NotAdministratorCitizen(us, adminUser) ==
    \/ adminUser = Null
    \/ us[adminUser].role = "citizen"

\* Faulty variant: any stored user passes the authorization check
NotAdministratorAnyUser(us, adminUser) == adminUser = Null

\* !adminUser || adminUser.role !== 'authority'
NotAdministrator(us, adminUser) ==
    \/ adminUser = Null
    \/ us[adminUser].role /= "authority"

\* Faulty variant: the self-modification check never fires
SameAccountNever(us, adminUser, targetUser) == FALSE

\* adminUser.firebaseUid === targetUser.firebaseUid
SameAccount(us, adminUser, targetUser) ==
    us[adminUser].firebaseUid = us[targetUser].firebaseUid

\* Faulty variant: the role is written to every document of the collection
SaveRoleEveryone(us, targetUser, newRole) ==
    [id \in DOMAIN us |-> [us[id] EXCEPT !.role = newRole]]

\* Faulty variant: the assignment is lost, the document is saved as it was read
SaveRoleUnchanged(us, targetUser, newRole) == us

\* targetUser.role = newRole; await targetUser.save()
SaveRole(us, targetUser, newRole) == [us EXCEPT ![targetUser].role = newRole]

updateUserRole(data, F) ==
    IF ~updateUserRoleSchema(data) THEN Return(Failure(InvalidInput), <<>>, {})
    ELSE IF "dbConnect" \in F
    THEN Return(Caught(UpdateRoleInternal), <<"dbConnect">>, {"dbConnect"})
    ELSE IF "User.findOne" \in F
    THEN Return(Caught(UpdateRoleInternal), <<"dbConnect", "User.findOne">>, {"User.findOne"})
    ELSE LET adminUser == findOne(users, data.adminFirebaseUid)
             c2 == <<"dbConnect", "User.findOne">>
             c3 == Append(c2, "User.findById")
             c4 == Append(c3, "save")
         IN
         IF NotAdministrator(users, adminUser) THEN Return(Failure(PermissionDenied), c2, {})
         ELSE IF "User.findById" \in F
         THEN Return(Caught(UpdateRoleInternal), c3, {"User.findById"})
         ELSE LET targetUser == findById(users, data.targetUserId) IN
              IF targetUser = Null THEN Return(Failure(TargetNotFound), c3, {})
              ELSE IF SameAccount(users, adminUser, targetUser)
              THEN Return(Failure(SelfModification), c3, {})
              ELSE IF "save" \in F THEN Return(Caught(UpdateRoleInternal), c4, {"save"})
              ELSE [Return(Success, Append(c4, "revalidatePath"), {})
                       EXCEPT !.users = SaveRole(users, targetUser, data.newRole)]

----------------------------------------------------------------------------
(* verifyCenter *)

\* z.object({ centerId: z.string(), adminFirebaseUid: z.string() })
verifyCenterSchema(data) ==
    /\ data.centerId /= NotAString
    /\ data.adminFirebaseUid /= NotAString

\* Faulty variant: the update flips the flag instead of setting it
findByIdAndUpdateToggle(cs, centerId) ==
    IF centerId \in DOMAIN cs THEN [cs EXCEPT ![centerId].verified = ~cs[centerId].verified]
    ELSE cs

\* Faulty variant: the update inserts the document when there is none ({ upsert: true })
findByIdAndUpdateUpsert(cs, centerId) ==
    IF centerId \in DOMAIN cs THEN [cs EXCEPT ![centerId].verified = TRUE]
    ELSE (centerId :> [uid |-> NoUid, verified |-> TRUE]) @@ cs

\* Center.findByIdAndUpdate(centerId, { verified: true }, { new: true }): the collection after it
findByIdAndUpdate(cs, centerId) ==
    IF centerId \in DOMAIN cs THEN [cs EXCEPT ![centerId].verified = TRUE] ELSE cs

verifyCenter(data, F) ==
    IF ~verifyCenterSchema(data) THEN Return(Failure(InvalidInput), <<>>, {})
    ELSE IF "dbConnect" \in F
    THEN Return(Caught(VerifyInternal), <<"dbConnect">>, {"dbConnect"})
    ELSE IF "User.findOne" \in F
    THEN Return(Caught(VerifyInternal), <<"dbConnect", "User.findOne">>, {"User.findOne"})
    ELSE LET adminUser == findOne(users, data.adminFirebaseUid)
             c2 == <<"dbConnect", "User.findOne">>
             c3 == Append(c2, "Center.findByIdAndUpdate")
         IN
         IF NotAdministrator(users, adminUser) THEN Return(Failure(PermissionDenied), c2, {})
         ELSE IF "Center.findByIdAndUpdate" \in F
         THEN Return(Caught(VerifyInternal), c3, {"Center.findByIdAndUpdate"})
         ELSE LET updated == findByIdAndUpdate(centers, data.centerId)
                  \* { new: true }: the document as it is after the update, or null
                  center == findById(updated, data.centerId)
              IN
              IF center = Null
              THEN [Return(Failure(CenterNotFound), c3, {}) EXCEPT !.centers = updated]
              ELSE [Return(Success, Append(c3, "revalidatePath"), {})
                       EXCEPT !.centers = updated]

----------------------------------------------------------------------------
(* rejectCenter *)

\* z.object({ centerId: z.string(), adminFirebaseUid: z.string() })
rejectCenterSchema(data) ==
    /\ data.centerId /= NotAString
    /\ data.adminFirebaseUid /= NotAString

\* Faulty variant: the deletion is attempted whether or not a uid is linked
HasUidAlways(uid) == TRUE

\* if (center.uid)
HasUid(uid) == uid /= NoUid

\* Faulty variant: the acting administrator's account is deleted instead of the center's
accountToDeleteActor(us, cs, adminUser, center) == us[adminUser].firebaseUid

\* the account rejectCenter deletes: center.uid
accountToDelete(us, cs, adminUser, center) == cs[center].uid

\* Faulty variant: a failed account deletion leaves the inner try as an exception
SwallowsAuthErrorNever == FALSE

\* catch (authError) { console.warn(...) }: the inner catch ends normally
SwallowsAuthError == TRUE

\* auth.deleteUser(uid) rejects: the provider is unreachable, or has no such account
deleteUserRejects(acc, uid, F) == "deleteUser" \in F \/ uid \notin DOMAIN acc

\* auth.deleteUser(uid): the accounts after it
deleteUser(acc, uid) == [u \in DOMAIN acc \ {uid} |-> acc[u]]

\* Center.findByIdAndDelete(centerId): the collection after it
findByIdAndDelete(cs, centerId) == [c \in DOMAIN cs \ {centerId} |-> cs[c]]

\* initializeFirebaseAdmin() throws: no app is initialized yet, initializing one fails (the
\* credential is not valid JSON; the catch only logs) and admin.auth() finds no app
initializeFirebaseAdminThrows(F) == adminApps = 0 /\ "initializeFirebaseAdmin" \in F

\* admin.apps.length after initializeFirebaseAdmin(): the app is initialized at most once
initializeFirebaseAdmin(F) == IF initializeFirebaseAdminThrows(F) THEN 0 ELSE 1

rejectCenter(data, F) ==
    IF ~rejectCenterSchema(data) THEN Return(Failure(InvalidInput), <<>>, {})
    ELSE IF "dbConnect" \in F
    THEN Return(Caught(RejectInternal), <<"dbConnect">>, {"dbConnect"})
    ELSE IF "User.findOne" \in F
    THEN Return(Caught(RejectInternal), <<"dbConnect", "User.findOne">>, {"User.findOne"})
    ELSE LET adminUser == findOne(users, data.adminFirebaseUid)
             c2 == <<"dbConnect", "User.findOne">>
             c3 == Append(c2, "Center.findById")
             c4 == Append(c3, "initializeFirebaseAdmin")
         IN
         IF NotAdministrator(users, adminUser) THEN Return(Failure(PermissionDenied), c2, {})
         ELSE IF "Center.findById" \in F
         THEN Return(Caught(RejectInternal), c3, {"Center.findById"})
         ELSE LET center == findById(centers, data.centerId) IN
         IF center = Null THEN Return(Failure(CenterNotFound), c3, {})
         ELSE IF initializeFirebaseAdminThrows(F)
         THEN Return(Caught(RejectInternal), c4, {"initializeFirebaseAdmin"})
         ELSE LET uid == accountToDelete(users, centers, adminUser, center)
                  attempted == HasUid(centers[center].uid)
                  authThrew == attempted /\ deleteUserRejects(accounts, uid, F)
                  acc == IF attempted /\ ~authThrew THEN deleteUser(accounts, uid) ELSE accounts
                  c5 == IF attempted THEN Append(c4, "deleteUser") ELSE c4
                  t5 == IF authThrew THEN {"deleteUser"} ELSE {}
                  c6 == Append(c5, "Center.findByIdAndDelete")
                  afterAuth == [Return(Success, c5, t5)
                                   EXCEPT !.accounts = acc, !.adminApps = initializeFirebaseAdmin(F)]
              IN
              IF authThrew /\ ~SwallowsAuthError
              THEN [afterAuth EXCEPT !.result = Caught(RejectInternal)]
              ELSE IF "Center.findByIdAndDelete" \in F
              THEN [afterAuth EXCEPT !.result = Caught(RejectInternal), !.calls = c6,
                                     !.thrown = t5 \cup {"Center.findByIdAndDelete"}]
              ELSE [afterAuth EXCEPT !.calls = Append(c6, "revalidatePath"),
                                     !.centers = findByIdAndDelete(centers, data.centerId)]

----------------------------------------------------------------------------
(* signup *)

\* the error codes createUserWithEmailAndPassword may reject with; none when it creates
createUserErrors(acc, formData, F) ==
    {"auth/network-request-failed" : x \in {"createUser"} \cap F}
    \cup {"auth/email-already-in-use" : u \in {v \in DOMAIN acc : acc[v] = formData.email}}
    \cup {"auth/weak-password" : x \in {formData.password} \cap {"weak"}}

\* the catch block's mapping of error.code to the message returned
errorMessage(code) ==
    IF code = "auth/email-already-in-use" THEN SignupEmailExists
    ELSE IF code = "auth/weak-password" THEN SignupWeakPassword
    ELSE SignupUnexpected

\* Faulty variant: the document is created with the administrator's role
newUserAuthority(uid, email) ==
    [firebaseUid |-> uid, email |-> email, role |-> "authority", emailVerified |-> FALSE]

\* new User({ firebaseUid, email, firstName, lastName, displayName, emailVerified: false })
newUser(uid, email) ==
    [firebaseUid |-> uid, email |-> email, role |-> DefaultRole, emailVerified |-> FALSE]

\* const { _id, __v, ...userWithoutSensitiveData } = userObject
userWithoutSensitiveData(doc) == doc

\* Faulty variant: the profile is written before the account is created, so it is there
\* when createUserWithEmailAndPassword rejects
usersAfterCreateRejectedSaved(us, formData) ==
    (UserIds[Cardinality(DOMAIN us) + 1] :> newUser(Null, formData.email)) @@ us

\* the User collection when createUserWithEmailAndPassword rejects: control is in the
\* catch block, which writes nothing
usersAfterCreateRejected(us, formData) == us

\* Faulty variant: the uid is taken from the client's current user, which the calls of
\* one server process share
firebaseUidCurrentUser(credentialUid, current) == current.uid

\* firebaseUid: firebaseUser.uid, the uid in the credential createUserWithEmailAndPassword
\* returned to this call
firebaseUid(credentialUid, current) == credentialUid

\* Faulty variant: the catch block deletes the account the call created
accountsAfterStoreFailureCompensated(acc, uid) == deleteUser(acc, uid)

\* the accounts when dbConnect or save rejects after the account was created: control is in
\* the catch block, which calls nothing
accountsAfterStoreFailure(acc, uid) == acc

\* signup with createUserWithEmailAndPassword rejecting with `code`, or creating when code is NoError
signup(formData, F, code) ==
    IF code /= NoError
    THEN [Return(Caught(errorMessage(code)), <<"createUser">>, {"createUser"})
             EXCEPT !.code = code, !.users = usersAfterCreateRejected(users, formData)]
    ELSE LET uid == NewUids[created + 1]
             id == UserIds[Cardinality(DOMAIN users) + 1]
             c2 == <<"createUser", "sendEmailVerification">>
             c3 == Append(c2, "dbConnect")
             c4 == Append(c3, "save")
             made == [Return(Caught(SignupUnexpected), c2, {})
                         EXCEPT !.accounts = (uid :> formData.email) @@ accounts,
                                !.created = created + 1,
                                !.currentUser = [uid |-> uid, email |-> formData.email]]
         IN
         IF "sendEmailVerification" \in F
         THEN [made EXCEPT !.thrown = {"sendEmailVerification"}]
         ELSE IF "dbConnect" \in F
         THEN [made EXCEPT !.calls = c3, !.thrown = {"dbConnect"},
                           !.accounts = accountsAfterStoreFailure(made.accounts, uid)]
         ELSE IF "save" \in F
         THEN [made EXCEPT !.calls = c4, !.thrown = {"save"},
                           !.accounts = accountsAfterStoreFailure(made.accounts, uid)]
         ELSE LET doc == newUser(firebaseUid(uid, made.currentUser), formData.email) IN
              [made EXCEPT !.result = Success, !.calls = c4,
                           !.users = (id :> doc) @@ users,
                           !.payload = userWithoutSensitiveData(doc)]

----------------------------------------------------------------------------
(* resendVerificationEmail *)

\* sendEmailVerification(user, ...) rejects: the provider is unreachable, or the account
\* of the signed-in user is gone
sendEmailVerificationRejects(acc, user, F) ==
    "sendEmailVerification" \in F \/ user.uid \notin DOMAIN acc

\* Faulty variant: any signed-in user will do
IsCurrentUserAny(user, email) == user /= NoUser

\* if (user && user.email === email)
IsCurrentUser(user, email) == user /= NoUser /\ user.email = email

resendVerificationEmail(email, F) ==
    LET user == currentUser IN
    IF ~IsCurrentUser(user, email) THEN Return(Failure(ResendNotSignedIn), <<>>, {})
    ELSE IF sendEmailVerificationRejects(accounts, user, F)
    THEN Return(Caught(ResendFailed), <<"sendEmailVerification">>, {"sendEmailVerification"})
    ELSE Return(Success, <<"sendEmailVerification">>, {})

----------------------------------------------------------------------------
(* Actions *)

\* the stores and the identity provider
Snapshot ==
    [users |-> users, centers |-> centers, accounts |-> accounts,
     revoked |-> revoked, deleted |-> deleted]

\* the users without 'authority' who had it before a role assignment of a completed call,
\* after a call that leaves the User collection as `after`
Revoked(after) ==
    (revoked \cup {id \in DOMAIN users : users[id].role = "authority"})
        \ {id \in DOMAIN after : after[id].role = "authority"}

\* the ids of the centers deleted so far, after a call that leaves the Center collection
\* as `after`
Deleted(after) == deleted \cup (DOMAIN centers \ DOMAIN after)

\* no call is being answered
NoData == [none |-> TRUE]
Idle == [op |-> "none", data |-> NoData, result |-> Success, calls |-> <<>>,
         thrown |-> {}, payload |-> Null, code |-> NoError]

\* a request arrives while none is being answered: the handler op runs to completion on
\* input data, with outcome o
Complete(op, data, o) ==
    /\ last = Idle
    /\ users' = o.users
    /\ centers' = o.centers
    /\ accounts' = o.accounts
    /\ created' = o.created
    /\ adminApps' = o.adminApps
    /\ currentUser' = o.currentUser
    /\ revoked' = Revoked(users')
    /\ deleted' = Deleted(centers')
    /\ UNCHANGED running
    /\ last' = [op |-> op, data |-> data, result |-> o.result, calls |-> o.calls,
                thrown |-> o.thrown, payload |-> o.payload, code |-> o.code]
    /\ prev' = Snapshot

\* the result is handed to the caller, which ends the request: nothing of it is kept
Respond ==
    /\ last /= Idle
    /\ last' = Idle
    /\ prev' = Snapshot
    /\ UNCHANGED <<users, centers, accounts, created, adminApps, currentUser, revoked, deleted,
                   running>>

\* the slots of the calls in progress
Slots == 1..MaxCalls

\* the result of a call that has not returned yet
Pending == [success |-> FALSE, error |-> "pending"]

\* a free slot
NoCall ==
    [op |-> "none", data |-> NoData, pc |-> "idle", actor |-> Null, role |-> Null,
     uid |-> Null, result |-> Pending]

\* the uids a caller may present: those of stored users, one of no user, a non-string
ActorUids == {users[id].firebaseUid : id \in DOMAIN users} \cup {"uid0", NotAString}

UpdateUserRoleInputs ==
    [targetUserId : DOMAIN users \cup {"u0", NotAString},
     newRole : Roles \cup {"admin"},
     adminFirebaseUid : ActorUids]

GetUsers(F) == Complete("getUsers", NoData, getUsers(F))

GetCenters(F) == Complete("getCenters", NoData, getCenters(F))

UpdateUserRole(F) ==
    /\ last = Idle
    /\ \E data \in UpdateUserRoleInputs :
           Complete("updateUserRole", data, updateUserRole(data, F))

CenterInputs ==
    [centerId : CenterIds \cup {NotAString},
     adminFirebaseUid : ActorUids]

VerifyCenter(F) ==
    /\ last = Idle
    /\ \E data \in CenterInputs : Complete("verifyCenter", data, verifyCenter(data, F))

RejectCenter(F) ==
    /\ last = Idle
    /\ \E data \in CenterInputs : Complete("rejectCenter", data, rejectCenter(data, F))

SignupInputs == [email : Emails, password : Passwords]

\* createUserWithEmailAndPassword rejects with one of the codes that apply, or creates
Signup(F) ==
    /\ last = Idle
    /\ \E formData \in SignupInputs :
           LET errs == createUserErrors(accounts, formData, F) IN
           \/ \E code \in errs : Complete("signup", formData, signup(formData, F, code))
           \/ /\ errs = {}
              /\ created < MaxSignups
              /\ Complete("signup", formData, signup(formData, F, NoError))

ResendVerificationEmail(F) ==
    /\ last = Idle
    /\ \E email \in Emails :
           Complete("resendVerificationEmail", [email |-> email],
                    resendVerificationEmail(email, F))

Init ==
    /\ users = ("u1" :> [firebaseUid |-> "uidA", email |-> "a@vax", role |-> "authority",
                         emailVerified |-> TRUE])
    /\ centers = ("x1" :> [uid |-> "uidF", verified |-> FALSE]
                  @@ "x2" :> [uid |-> NoUid, verified |-> FALSE])
    /\ accounts = ("uidA" :> "a@vax" @@ "uidF" :> "c@vax")
    /\ created = 0
    /\ adminApps = 0
    /\ currentUser = NoUser
    /\ revoked = {}
    /\ deleted = {}
    /\ running = [s \in Slots |-> NoCall]
    /\ last = Idle
    /\ prev = Snapshot

\* the upstream calls of each handler
GetUsersFaults == {"dbConnect", "User.find"}
GetCentersFaults == {"dbConnect", "Center.find"}
UpdateUserRoleFaults == {"dbConnect", "User.findOne", "User.findById", "save"}
VerifyCenterFaults == {"dbConnect", "User.findOne", "Center.findByIdAndUpdate"}
RejectCenterFaults ==
    {"dbConnect", "User.findOne", "Center.findById", "initializeFirebaseAdmin", "deleteUser",
     "Center.findByIdAndDelete"}
SignupFaults == {"createUser", "sendEmailVerification", "dbConnect", "save"}
ResendFaults == {"sendEmailVerification"}

\* every upstream call answers
Next ==
    \/ GetUsers({})
    \/ GetCenters({})
    \/ UpdateUserRole({})
    \/ VerifyCenter({})
    \/ RejectCenter({})
    \/ Signup({})
    \/ ResendVerificationEmail({})
    \/ Respond

Spec == Init /\ [][Next]_vars

\* The sets of rejecting calls that differ in effect: a handler stops at the first
\* rejection, except that rejectCenter goes on after a rejected deleteUser.
FaultSets(P) ==
    {{}} \cup {{p} : p \in P} \cup {{"deleteUser", p} : p \in P \cap {"Center.findByIdAndDelete"}}

\* any upstream call may reject
NextFaults ==
    \/ \E F \in FaultSets(GetUsersFaults) : GetUsers(F)
    \/ \E F \in FaultSets(GetCentersFaults) : GetCenters(F)
    \/ \E F \in FaultSets(UpdateUserRoleFaults) : UpdateUserRole(F)
    \/ \E F \in FaultSets(VerifyCenterFaults) : VerifyCenter(F)
    \/ \E F \in FaultSets(RejectCenterFaults) : RejectCenter(F)
    \/ \E F \in FaultSets(SignupFaults) : Signup(F)
    \/ \E F \in FaultSets(ResendFaults) : ResendVerificationEmail(F)
    \/ Respond

SpecFaults == Init /\ [][NextFaults]_vars

\* a store in which nobody has signed up yet: no User record, the two pending centers
InitNoUsers ==
    /\ users = [id \in {} |-> NoData]
    /\ centers = ("x1" :> [uid |-> "uidF", verified |-> FALSE]
                  @@ "x2" :> [uid |-> NoUid, verified |-> FALSE])
    /\ accounts = ("uidF" :> "c@vax")
    /\ created = 0
    /\ adminApps = 0
    /\ currentUser = NoUser
    /\ revoked = {}
    /\ deleted = {}
    /\ running = [s \in Slots |-> NoCall]
    /\ last = Idle
    /\ prev = Snapshot

\* completed calls, any upstream call rejecting, on a store with or without an administrator
SpecAnyStore == (Init \/ InitNoUsers) /\ [][NextFaults]_vars

----------------------------------------------------------------------------
(* Calls followed step by step: a step is one await of a handler together with the     *)
(* synchronous code up to the next await, and the steps of the calls in progress       *)
(* interleave. The store and the identity provider execute each request atomically.    *)

\* what a step leaves alone besides the stores: the record of completed calls
History == <<last, prev, revoked, deleted>>

\* a call of op on input data about to make the upstream call pc
Begin(op, data, pc) == [NoCall EXCEPT !.op = op, !.data = data, !.pc = pc]

\* the call returns res
Ended(call, res) == [call EXCEPT !.pc = "done", !.result = res]

\* the call in slot s goes on as `call`
Goes(s, call) == running' = [running EXCEPT ![s] = call]

\* updateUserRole: safeParse, dbConnect
UrStart(s) ==
    /\ running[s] = NoCall
    /\ \E data \in UpdateUserRoleInputs :
           Goes(s, IF updateUserRoleSchema(data)
                   THEN Begin("updateUserRole", data, "User.findOne")
                   ELSE Ended(Begin("updateUserRole", data, "done"), Failure(InvalidInput)))
    /\ UNCHANGED <<users, centers, accounts, created, adminApps, currentUser, History>>

\* verifyCenter: safeParse, dbConnect
VcStart(s) ==
    /\ running[s] = NoCall
    /\ \E data \in CenterInputs :
           Goes(s, IF verifyCenterSchema(data)
                   THEN Begin("verifyCenter", data, "User.findOne")
                   ELSE Ended(Begin("verifyCenter", data, "done"), Failure(InvalidInput)))
    /\ UNCHANGED <<users, centers, accounts, created, adminApps, currentUser, History>>

\* rejectCenter: safeParse, dbConnect
RcStart(s) ==
    /\ running[s] = NoCall
    /\ \E data \in CenterInputs :
           Goes(s, IF rejectCenterSchema(data)
                   THEN Begin("rejectCenter", data, "User.findOne")
                   ELSE Ended(Begin("rejectCenter", data, "done"), Failure(InvalidInput)))
    /\ UNCHANGED <<users, centers, accounts, created, adminApps, currentUser, History>>

\* the upstream call a handler makes once the actor is authorized
AfterAuthorization(op) ==
    IF op = "updateUserRole" THEN "User.findById"
    ELSE IF op = "verifyCenter" THEN "Center.findByIdAndUpdate"
    ELSE "Center.findById"

\* the three handlers: adminUser = await User.findOne({ firebaseUid }) and the role check
Authorize(s) ==
    LET call == running[s]
        adminUser == findOne(users, call.data.adminFirebaseUid)
    IN
    /\ call.pc = "User.findOne"
    /\ Goes(s, IF NotAdministrator(users, adminUser)
               THEN Ended(call, Failure(PermissionDenied))
               ELSE [call EXCEPT !.pc = AfterAuthorization(call.op), !.actor = adminUser])
    /\ UNCHANGED <<users, centers, accounts, created, adminApps, currentUser, History>>

\* updateUserRole: targetUser = await User.findById(targetUserId), the not-found and the
\* self-modification check; the document is kept as read
UrFindById(s) ==
    LET call == running[s]
        targetUser == findById(users, call.data.targetUserId)
    IN
    /\ call.pc = "User.findById"
    /\ Goes(s, IF targetUser = Null THEN Ended(call, Failure(TargetNotFound))
               ELSE IF SameAccount(users, call.actor, targetUser)
               THEN Ended(call, Failure(SelfModification))
               ELSE [call EXCEPT !.pc = "save", !.role = users[targetUser].role])
    /\ UNCHANGED <<users, centers, accounts, created, adminApps, currentUser, History>>

\* updateUserRole: targetUser.role = newRole; await targetUser.save(). save() writes the
\* fields the assignment changed: none when the document as read had the role already
UrSave(s) ==
    LET call == running[s] IN
    /\ call.op = "updateUserRole"
    /\ call.pc = "save"
    /\ users' = IF call.role = call.data.newRole THEN users
                ELSE SaveRole(users, call.data.targetUserId, call.data.newRole)
    /\ Goes(s, Ended(call, Success))
    /\ UNCHANGED <<centers, accounts, created, adminApps, currentUser, History>>

\* verifyCenter: center = await Center.findByIdAndUpdate(...) and the not-found check
VcUpdate(s) ==
    LET call == running[s]
        updated == findByIdAndUpdate(centers, call.data.centerId)
    IN
    /\ call.pc = "Center.findByIdAndUpdate"
    /\ centers' = updated
    /\ Goes(s, IF findById(updated, call.data.centerId) = Null
               THEN Ended(call, Failure(CenterNotFound))
               ELSE Ended(call, Success))
    /\ UNCHANGED <<users, accounts, created, adminApps, currentUser, History>>

\* rejectCenter: center = await Center.findById(centerId) and the not-found check; the
\* document is kept as read
RcFindById(s) ==
    LET call == running[s]
        center == findById(centers, call.data.centerId)
    IN
    /\ call.pc = "Center.findById"
    /\ Goes(s, IF center = Null THEN Ended(call, Failure(CenterNotFound))
               ELSE [call EXCEPT !.pc = "deleteUser",
                                 !.uid = IF HasUid(centers[center].uid)
                                         THEN accountToDelete(users, centers, call.actor, center)
                                         ELSE NoUid])
    /\ UNCHANGED <<users, centers, accounts, created, adminApps, currentUser, History>>

\* rejectCenter: initializeFirebaseAdmin() and, if the center as read has a uid,
\* await auth.deleteUser(center.uid) inside the inner try
RcDeleteUser(s) ==
    LET call == running[s]
        attempted == HasUid(call.uid)
        authThrew == attempted /\ deleteUserRejects(accounts, call.uid, {})
    IN
    /\ call.pc = "deleteUser"
    /\ adminApps' = initializeFirebaseAdmin({})
    /\ accounts' = IF attempted /\ ~authThrew THEN deleteUser(accounts, call.uid) ELSE accounts
    /\ Goes(s, IF authThrew /\ ~SwallowsAuthError
               THEN Ended(call, Caught(RejectInternal))
               ELSE [call EXCEPT !.pc = "Center.findByIdAndDelete"])
    /\ UNCHANGED <<users, centers, created, currentUser, History>>

\* rejectCenter: await Center.findByIdAndDelete(centerId)
RcDelete(s) ==
    LET call == running[s] IN
    /\ call.pc = "Center.findByIdAndDelete"
    /\ centers' = findByIdAndDelete(centers, call.data.centerId)
    /\ Goes(s, Ended(call, Success))
    /\ UNCHANGED <<users, accounts, created, adminApps, currentUser, History>>

\* signup: the form data is taken apart, getAuth(app)
SuStart(s) ==
    /\ running[s] = NoCall
    /\ \E formData \in SignupInputs : Goes(s, Begin("signup", formData, "createUser"))
    /\ UNCHANGED <<users, centers, accounts, created, adminApps, currentUser, History>>

\* signup: await createUserWithEmailAndPassword(auth, email, password), which also signs
\* the new user in on the server's client
SuCreateUser(s, F) ==
    LET call == running[s]
        errs == createUserErrors(accounts, call.data, F)
        uid == NewUids[created + 1]
    IN
    /\ call.pc = "createUser"
    /\ \/ /\ \E code \in errs : Goes(s, Ended(call, Caught(errorMessage(code))))
          /\ UNCHANGED <<accounts, created, currentUser>>
       \/ /\ errs = {}
          /\ created < MaxAccounts
          /\ accounts' = (uid :> call.data.email) @@ accounts
          /\ created' = created + 1
          /\ currentUser' = [uid |-> uid, email |-> call.data.email]
          /\ Goes(s, [call EXCEPT !.pc = "sendEmailVerification", !.uid = uid])
    /\ UNCHANGED <<users, centers, adminApps, History>>

\* signup: await sendEmailVerification(firebaseUser, actionCodeSettings)
SuSendEmailVerification(s, F) ==
    LET call == running[s] IN
    /\ call.pc = "sendEmailVerification"
    /\ Goes(s, IF "sendEmailVerification" \in F THEN Ended(call, Caught(SignupUnexpected))
               ELSE [call EXCEPT !.pc = "dbConnect"])
    /\ UNCHANGED <<users, centers, accounts, created, adminApps, currentUser, History>>

\* signup: await dbConnect()
SuDbConnect(s, F) ==
    LET call == running[s] IN
    /\ call.pc = "dbConnect"
    /\ Goes(s, IF "dbConnect" \in F THEN Ended(call, Caught(SignupUnexpected))
               ELSE [call EXCEPT !.pc = "save"])
    /\ accounts' = IF "dbConnect" \in F THEN accountsAfterStoreFailure(accounts, call.uid)
                   ELSE accounts
    /\ UNCHANGED <<users, centers, created, adminApps, currentUser, History>>

\* signup: new User({ firebaseUid: firebaseUser.uid, ... }); await newUser.save()
SuSave(s, F) ==
    LET call == running[s]
        id == UserIds[Cardinality(DOMAIN users) + 1]
        doc == newUser(firebaseUid(call.uid, currentUser), call.data.email)
    IN
    /\ call.op = "signup"
    /\ call.pc = "save"
    /\ users' = IF "save" \in F THEN users ELSE (id :> doc) @@ users
    /\ accounts' = IF "save" \in F THEN accountsAfterStoreFailure(accounts, call.uid)
                   ELSE accounts
    /\ Goes(s, Ended(call, IF "save" \in F THEN Caught(SignupUnexpected) ELSE Success))
    /\ UNCHANGED <<centers, created, adminApps, currentUser, History>>

\* the result of the call in slot s is handed to its caller
Finish(s) ==
    /\ running[s].pc = "done"
    /\ Goes(s, NoCall)
    /\ UNCHANGED <<users, centers, accounts, created, adminApps, currentUser, History>>

\* signup calls in progress at the same time, any of their upstream calls rejecting
NextSignups ==
    \E s \in Slots :
        \/ SuStart(s)
        \/ \E F \in FaultSets(SignupFaults) : SuCreateUser(s, F)
        \/ \E F \in FaultSets(SignupFaults) : SuSendEmailVerification(s, F)
        \/ \E F \in FaultSets(SignupFaults) : SuDbConnect(s, F)
        \/ \E F \in FaultSets(SignupFaults) : SuSave(s, F)
        \/ Finish(s)

SpecSignups == Init /\ [][NextSignups]_vars

\* privileged calls in progress at the same time, every upstream call answering
NextPrivileged ==
    \E s \in Slots :
        \/ UrStart(s)
        \/ VcStart(s)
        \/ RcStart(s)
        \/ Authorize(s)
        \/ UrFindById(s)
        \/ UrSave(s)
        \/ VcUpdate(s)
        \/ RcFindById(s)
        \/ RcDeleteUser(s)
        \/ RcDelete(s)
        \/ Finish(s)

\* a state the sequence signup(n@vax), updateUserRole(u2, 'authority') by u1 leads to from
\* Init: two administrators
InitTwoAdministrators ==
    /\ users = ("u1" :> [firebaseUid |-> "uidA", email |-> "a@vax", role |-> "authority",
                         emailVerified |-> TRUE]
                @@ "u2" :> [firebaseUid |-> "uidN1", email |-> "n@vax", role |-> "authority",
                            emailVerified |-> FALSE])
    /\ centers = ("x1" :> [uid |-> "uidF", verified |-> FALSE]
                  @@ "x2" :> [uid |-> NoUid, verified |-> FALSE])
    /\ accounts = ("uidA" :> "a@vax" @@ "uidF" :> "c@vax" @@ "uidN1" :> "n@vax")
    /\ created = 1
    /\ adminApps = 0
    /\ currentUser = [uid |-> "uidN1", email |-> "n@vax"]
    /\ revoked = {}
    /\ deleted = {}
    /\ running = [s \in Slots |-> NoCall]
    /\ last = Idle
    /\ prev = Snapshot

SpecPrivileged == InitTwoAdministrators /\ [][NextPrivileged]_vars

----------------------------------------------------------------------------
(* What the claims speak of: the call being answered (last), the state it found (prev) *)
(* and the state it left (the current one).                                           *)

\* the stored user the call's adminFirebaseUid resolves to, in the state the call found
Actor == findOne(prev.users, last.data.adminFirebaseUid)

ActorIsAuthority == Actor /= Null /\ prev.users[Actor].role = "authority"

StoreUnchanged == users = prev.users /\ centers = prev.centers

ProviderUnchanged == accounts = prev.accounts

CenterCall == last.op \in {"verifyCenter", "rejectCenter"}

AdminCall == last.op \in {"updateUserRole", "verifyCenter", "rejectCenter"}

\* the call's input has the shape its schema asks for
WellFormed ==
    IF last.op = "updateUserRole"
    THEN /\ last.data.targetUserId /= NotAString
         /\ last.data.newRole \in Roles
         /\ last.data.adminFirebaseUid /= NotAString
    ELSE /\ last.data.centerId /= NotAString
         /\ last.data.adminFirebaseUid /= NotAString

\* the call names the acting user as its target
TargetsSelf == Actor /= Null /\ last.data.targetUserId = Actor

----------------------------------------------------------------------------
(* C1 *)

\* C1, as claimed: every updateUserRole call whose acting user does not exist or is not
\* an authority returns the permission failure and leaves every record unchanged.
C1_AsClaimed ==
    (last.op = "updateUserRole" /\ ~ActorIsAuthority)
        => (last.result = Failure(PermissionDenied) /\ StoreUnchanged)

\* C1, amended: such a call returns the permission failure when its input is well-formed
\* and the validation failure when it is not, and in both cases leaves every record and
\* every identity-provider account unchanged.
C1_PermissionDenied ==
    (last.op = "updateUserRole" /\ ~ActorIsAuthority)
        => /\ last.result = Failure(IF WellFormed THEN PermissionDenied ELSE InvalidInput)
           /\ StoreUnchanged
           /\ ProviderUnchanged

\* a stored user who is not an authority asked for a role change of another user and
\* was refused
C1_Witness ==
    /\ last.op = "updateUserRole"
    /\ WellFormed
    /\ Actor /= Null
    /\ prev.users[Actor].role = "citizen"
    /\ last.data.targetUserId \in DOMAIN prev.users \ {Actor}
    /\ last.data.newRole /= prev.users[last.data.targetUserId].role
    /\ last.result = Failure(PermissionDenied)

----------------------------------------------------------------------------
(* C2 *)

\* C2, as claimed: every updateUserRole call whose target is the acting user, whichever of
\* the three roles it asks for, returns the self-modification failure and leaves the
\* target's role unchanged.
C2_AsClaimed ==
    (last.op = "updateUserRole" /\ WellFormed /\ TargetsSelf)
        => /\ last.result = Failure(SelfModification)
           /\ users[Actor].role = prev.users[Actor].role

\* C2, amended: such a call returns the self-modification failure when the acting user's
\* stored role is authority and the permission failure when it is not; in both cases the
\* target's role is unchanged.
C2_SelfModification ==
    (last.op = "updateUserRole" /\ WellFormed /\ TargetsSelf)
        => /\ last.result = Failure(IF ActorIsAuthority THEN SelfModification
                                    ELSE PermissionDenied)
           /\ users[Actor].role = prev.users[Actor].role

\* an authority asked for another role for themselves and was refused
C2_Witness ==
    /\ last.op = "updateUserRole"
    /\ TargetsSelf
    /\ ActorIsAuthority
    /\ last.data.newRole \in Roles \ {"authority"}
    /\ last.result = Failure(SelfModification)

----------------------------------------------------------------------------
(* C3 *)

\* the call is well-formed, by an authority, on an existing user other than the actor
C3_Case ==
    /\ last.op = "updateUserRole"
    /\ WellFormed
    /\ ActorIsAuthority
    /\ last.data.targetUserId \in DOMAIN prev.users
    /\ last.data.targetUserId /= Actor

\* C3: an updateUserRole call with well-formed input, an authority actor and an existing
\* target other than the actor returns success, and getUsers, read after it, shows the
\* target with the requested role, for each of the three roles.
C3_RoleAssigned ==
    C3_Case
        => /\ last.result = Success
           /\ getUsers({}).result = Success
           /\ last.data.targetUserId \in DOMAIN getUsers({}).payload
           /\ getUsers({}).payload[last.data.targetUserId].role = last.data.newRole

\* an authority has made another authority a center
C3_Witness ==
    /\ C3_Case
    /\ prev.users[last.data.targetUserId].role = "authority"
    /\ last.data.newRole = "center"
    /\ last.result = Success

----------------------------------------------------------------------------
(* C4 *)

\* C4, as claimed: every verifyCenter or rejectCenter call whose acting user does not exist
\* or is not an authority returns the permission failure, leaves the center record as it
\* is and attempts no identity-provider deletion.
C4_AsClaimed ==
    (CenterCall /\ ~ActorIsAuthority)
        => /\ last.result = Failure(PermissionDenied)
           /\ centers = prev.centers
           /\ \A i \in 1..Len(last.calls) : last.calls[i] /= "deleteUser"

\* C4, amended: such a call returns the permission failure when its input is well-formed
\* and the validation failure when it is not; in both cases the center record is unchanged
\* and no identity-provider deletion is attempted.
C4_CenterPermission ==
    (CenterCall /\ ~ActorIsAuthority)
        => /\ last.result = Failure(IF WellFormed THEN PermissionDenied ELSE InvalidInput)
           /\ centers = prev.centers
           /\ ProviderUnchanged
           /\ \A i \in 1..Len(last.calls) : last.calls[i] /= "deleteUser"

\* a stored user who is not an authority asked for the rejection of an existing center
\* with a linked account and was refused
C4_Witness ==
    /\ last.op = "rejectCenter"
    /\ Actor /= Null
    /\ ~ActorIsAuthority
    /\ last.data.centerId \in DOMAIN prev.centers
    /\ prev.centers[last.data.centerId].uid /= NoUid
    /\ last.result = Failure(PermissionDenied)

----------------------------------------------------------------------------
(* C5 *)

\* the call is by an authority on an existing center
CenterCase(op) ==
    /\ last.op = op
    /\ ActorIsAuthority
    /\ last.data.centerId \in DOMAIN prev.centers

\* C5: verifyCenter by an authority on an existing center returns success and leaves the
\* center verified; called on a center that is already verified (a second approval) it
\* returns success as well and changes nothing.
C5_ApproveIdempotent ==
    CenterCase("verifyCenter")
        => /\ last.result = Success
           /\ last.data.centerId \in DOMAIN centers
           /\ centers[last.data.centerId].verified
           /\ prev.centers[last.data.centerId].verified => (StoreUnchanged /\ ProviderUnchanged)

\* a center that an earlier call has verified is approved again
C5_Witness ==
    /\ CenterCase("verifyCenter")
    /\ prev.centers[last.data.centerId].verified
    /\ last.result = Success

----------------------------------------------------------------------------
(* C6 *)

\* C6: rejectCenter by an authority on an existing center without a linked uid attempts no
\* identity-provider deletion and deletes the center record.
C6_NoUidNoDeletion ==
    (CenterCase("rejectCenter") /\ prev.centers[last.data.centerId].uid = NoUid)
        => /\ \A i \in 1..Len(last.calls) : last.calls[i] /= "deleteUser"
           /\ ProviderUnchanged
           /\ last.data.centerId \notin DOMAIN centers
           /\ last.result = Success

\* a center without a linked uid has been rejected
C6_Witness ==
    /\ CenterCase("rejectCenter")
    /\ prev.centers[last.data.centerId].uid = NoUid
    /\ last.data.centerId \notin DOMAIN centers

----------------------------------------------------------------------------
(* C7 *)

\* the account deletion was attempted and rejected
C7_Case ==
    /\ CenterCase("rejectCenter")
    /\ prev.centers[last.data.centerId].uid /= NoUid
    /\ "deleteUser" \in last.thrown

\* C7: when rejectCenter by an authority on an existing center with a linked uid finds the
\* account deletion failing (the store answering), the center record is deleted all the
\* same and the call returns success; whatever else happens, the result never carries the
\* identity provider's failure.
C7_AuthFailureSwallowed ==
    C7_Case
        => /\ last.thrown = {"deleteUser"}
                => (last.result = Success /\ last.data.centerId \notin DOMAIN centers)
           /\ last.result \in {Success, Failure(RejectInternal)}
           /\ last.result = Success \/ "Center.findByIdAndDelete" \in last.thrown

\* the account deletion failed and the center record is gone
C7_Witness ==
    /\ C7_Case
    /\ last.result = Success
    /\ last.data.centerId \notin DOMAIN centers

----------------------------------------------------------------------------
(* C8 *)

\* the email a signup call gives is registered at the identity provider
EmailInUse == \E u \in DOMAIN prev.accounts : prev.accounts[u] = last.data.email

\* C8: a signup call whose account creation is rejected because the email is in use
\* returns a failure, creates no User record and does not touch the store at all.
C8_NoUserOnEmailInUse ==
    (last.op = "signup" /\ last.code = "auth/email-already-in-use")
        => /\ EmailInUse
           /\ ~last.result.success
           /\ users = prev.users
           /\ last.calls = <<"createUser">>
           /\ ProviderUnchanged

\* a signup with a registered email and an acceptable password has been refused
C8_Witness ==
    /\ last.op = "signup"
    /\ last.code = "auth/email-already-in-use"
    /\ last.data.password = "strong"
    /\ last.result = Failure(SignupEmailExists)

----------------------------------------------------------------------------
(* C9 *)

\* C9, as claimed: no call deletes a center record whose verified flag is true.
C9_VerifiedNeverDeleted ==
    \A c \in DOMAIN prev.centers : prev.centers[c].verified => c \in DOMAIN centers

----------------------------------------------------------------------------
(* C10 *)

\* C10, as claimed: an administrative call that returns a failure has changed neither the
\* document store nor the identity provider.
C10_AsClaimed ==
    (AdminCall /\ ~last.result.success) => (StoreUnchanged /\ ProviderUnchanged)

\* C10, amended: an administrative call that returns a failure has not changed the
\* document store; a failed updateUserRole or verifyCenter has not changed the identity
\* provider either, while a failed rejectCenter has changed it only by deleting the
\* center's linked account, and only when the record deletion failed after it.
C10_FailureLeavesStore ==
    (AdminCall /\ ~last.result.success)
        => /\ StoreUnchanged
           /\ ProviderUnchanged
              \/ /\ last.op = "rejectCenter"
                 /\ "Center.findByIdAndDelete" \in last.thrown
                 /\ last.data.centerId \in DOMAIN centers
                 /\ accounts = deleteUser(prev.accounts, centers[last.data.centerId].uid)

\* a rejectCenter call has failed after deleting the center's account
C10_Witness ==
    /\ last.op = "rejectCenter"
    /\ ~last.result.success
    /\ StoreUnchanged
    /\ ~ProviderUnchanged

----------------------------------------------------------------------------
(* C11 *)

\* an upstream call rejected during the call being answered
UpstreamFailed == last.thrown /= {}

\* the one rejection a handler goes on after: auth.deleteUser in rejectCenter
SwallowedOnly == last.op = "rejectCenter" /\ last.thrown = {"deleteUser"}

\* C11 as the specification states it: whenever the store or the identity provider fails at
\* any step of an operation, the operation returns a structured { success: false, error }.
C11_AsClaimed ==
    UpstreamFailed => (~last.result.success /\ last.result.error /= Unhandled)

\* C11: no upstream failure leaves an operation as an exception, and an operation in which
\* an upstream call failed returns { success: false, error } with a message, unless the only
\* failure was rejectCenter's deletion of the linked account, which is swallowed.
C11_FailuresReturned ==
    /\ last.result.error /= Unhandled
    /\ (UpstreamFailed /\ ~SwallowedOnly)
        => (~last.result.success /\ last.result.error /= NoError)

\* resendVerificationEmail was answered with a failure after the dispatch was rejected
C11_Witness ==
    /\ last.op = "resendVerificationEmail"
    /\ last.thrown = {"sendEmailVerification"}
    /\ last.result = Failure(ResendFailed)
    /\ currentUser.email = last.data.email

----------------------------------------------------------------------------
(* C12 *)

\* the failure of the first precondition of updateUserRole the call violates, in the order
\* input shape, actor authorization, target existence, self-modification; none if all hold
FirstViolated ==
    IF ~WellFormed THEN InvalidInput
    ELSE IF ~ActorIsAuthority THEN PermissionDenied
    ELSE IF last.data.targetUserId \notin DOMAIN prev.users THEN TargetNotFound
    ELSE IF TargetsSelf THEN SelfModification
    ELSE NoError

----------------------------------------------------------------------------
(* C13 *)

\* the acting user had 'authority' taken away by a completed role assignment and has not
\* been assigned it again since
ActorRevoked == Actor /= Null /\ Actor \in prev.revoked

\* C13 as the specification states it: once a completed updateUserRole has changed a user's
\* role away from 'authority', every later updateUserRole, verifyCenter or rejectCenter call
\* with that user as actor returns the permission failure, until the user is assigned
\* 'authority' again.
C13_AsClaimed ==
    (AdminCall /\ ActorRevoked) => last.result = Failure(PermissionDenied)

\* C13: authorization is evaluated against the stored role on every call. Once a completed
\* updateUserRole has changed a user's role away from 'authority', every later privileged
\* call with well-formed input and that user as actor returns the permission failure, and
\* one with malformed input the validation failure, until the user is assigned 'authority'
\* again; none of these calls changes anything.
C13_RevokedRefused ==
    (AdminCall /\ ActorRevoked)
        => /\ last.result = Failure(IF WellFormed THEN PermissionDenied ELSE InvalidInput)
           /\ StoreUnchanged
           /\ ProviderUnchanged

\* a former authority, now a center user, asked for a center to be rejected and was refused
C13_Witness ==
    /\ last.op = "rejectCenter"
    /\ WellFormed
    /\ ActorRevoked
    /\ prev.users[Actor].role = "center"
    /\ last.data.centerId \in DOMAIN prev.centers
    /\ last.result = Failure(PermissionDenied)

----------------------------------------------------------------------------
(* C14 *)

\* the accounts the call being answered created at the identity provider
NewAccounts == DOMAIN accounts \ DOMAIN prev.accounts

\* the stored users that carry the uid of an account the call created
NewUsers == {id \in DOMAIN users : users[id].firebaseUid \in NewAccounts}

\* C14: the verification-email dispatch in signup is best-effort: when the account creation
\* succeeds and the dispatch fails, signup does not return a failure because of it and the
\* local User record is created all the same.
C14_DispatchBestEffort ==
    (last.op = "signup" /\ "sendEmailVerification" \in last.thrown)
        => /\ last.result.success
           /\ NewUsers /= {}

----------------------------------------------------------------------------
(* C15 *)

\* the store failed in the call being answered after the account was created
StoreFailedAfterCreate ==
    /\ last.op = "signup"
    /\ last.thrown \cap {"dbConnect", "save"} /= {}

\* C15: when signup has created the account and the store connection or the save of the
\* User record then fails, the call returns a failure, the account the call created still
\* exists at the identity provider, no User record refers to it, and no deletion of the
\* account is attempted.
C15_OrphanAccountKept ==
    StoreFailedAfterCreate
        => /\ last.result = Failure(SignupUnexpected)
           /\ Cardinality(NewAccounts) = 1
           /\ \A uid \in NewAccounts : accounts[uid] = last.data.email
           /\ DOMAIN prev.accounts \subseteq DOMAIN accounts
           /\ NewUsers = {}
           /\ users = prev.users
           /\ \A i \in 1..Len(last.calls) : last.calls[i] /= "deleteUser"

\* the save of the User record was rejected after the account had been created
C15_Witness ==
    /\ last.op = "signup"
    /\ last.thrown = {"save"}
    /\ last.calls = <<"createUser", "sendEmailVerification", "dbConnect", "save">>
    /\ NewAccounts /= {}
    /\ ~last.result.success

----------------------------------------------------------------------------
(* C16 *)

\* the call names a center that rejectCenter had deleted before the call
NamesDeleted == CenterCall /\ WellFormed /\ last.data.centerId \in prev.deleted

\* the call reached the identity provider's admin client
ProviderCalled ==
    \E i \in 1..Len(last.calls) : last.calls[i] \in {"initializeFirebaseAdmin", "deleteUser"}

\* C16: deletion of a center is final. No center that rejectCenter has deleted exists again
\* under its id, and every later verifyCenter or rejectCenter call on that id by an
\* authority returns the not-found failure, changes nothing in the store and does not call
\* the identity provider.
C16_DeletedIsTerminal ==
    /\ deleted \cap DOMAIN centers = {}
    /\ (NamesDeleted /\ ActorIsAuthority)
        => /\ last.result = Failure(CenterNotFound)
           /\ StoreUnchanged
           /\ ProviderUnchanged
           /\ ~ProviderCalled

\* an authority asked for a center to be approved that had been rejected before
C16_Witness ==
    /\ last.op = "verifyCenter"
    /\ NamesDeleted
    /\ ActorIsAuthority
    /\ last.result = Failure(CenterNotFound)

----------------------------------------------------------------------------
(* C18 *)

\* the administrative operations
AdminOperation ==
    last.op \in {"getUsers", "getCenters", "updateUserRole", "verifyCenter", "rejectCenter"}

\* C18: a successful updateUserRole changes the role field of the target User record and
\* nothing else: no other User record, no other field of the target, no Center record and
\* no identity-provider account. No administrative operation, whatever its outcome, deletes
\* a User record or changes a User's firebaseUid.
C18_OnlyTargetRole ==
    /\ (last.op = "updateUserRole" /\ last.result.success)
        => /\ users = [prev.users EXCEPT ![last.data.targetUserId].role = last.data.newRole]
           /\ centers = prev.centers
           /\ accounts = prev.accounts
    /\ AdminOperation
        => /\ DOMAIN users = DOMAIN prev.users
           /\ \A id \in DOMAIN users : users[id].firebaseUid = prev.users[id].firebaseUid

\* a role was changed while the collection held other users besides the target
C18_Witness ==
    /\ last.op = "updateUserRole"
    /\ last.result.success
    /\ Cardinality(DOMAIN prev.users) >= 2
    /\ prev.users[last.data.targetUserId].role /= last.data.newRole
    /\ users[last.data.targetUserId].role = last.data.newRole

----------------------------------------------------------------------------
(* C17 *)

\* the signup call in slot s has returned success
SignedUp(s) ==
    /\ running[s].op = "signup"
    /\ running[s].pc = "done"
    /\ running[s].result.success

\* the User records that carry the uid of the account the call in slot s created
UsersOf(s) == {id \in DOMAIN users : users[id].firebaseUid = running[s].uid}

\* C17: with signup calls interleaving step by step, no two User records share a
\* firebaseUid, and a signup that has returned success has created exactly one User
\* record, which carries the uid of the identity-provider account that call created.
C17_OneUserPerAccount ==
    /\ \A a, b \in DOMAIN users : users[a].firebaseUid = users[b].firebaseUid => a = b
    /\ \A s \in Slots :
           SignedUp(s)
               => /\ Cardinality(UsersOf(s)) = 1
                  /\ running[s].uid \in DOMAIN accounts
                  /\ accounts[running[s].uid] = running[s].data.email
                  /\ \A id \in UsersOf(s) : users[id].email = running[s].data.email

\* two signups overlapped and both returned success: the account created first belongs to
\* the User record saved second
C17_Witness ==
    \E s, t \in Slots :
        /\ s /= t
        /\ SignedUp(s)
        /\ SignedUp(t)
        /\ running[s].uid = NewUids[1]
        /\ running[t].uid = NewUids[2]
        /\ UsersOf(s) = {UserIds[3]}
        /\ UsersOf(t) = {UserIds[2]}

----------------------------------------------------------------------------
(* C19 *)

\* C19: administrator lockout is impossible: starting with at least one User of role
\* 'authority', every reachable state has at least one, also when updateUserRole calls of
\* different administrators interleave at the granularity of their store reads and writes.
C19_NoLockout == \E id \in DOMAIN users : users[id].role = "authority"

----------------------------------------------------------------------------
(* C20 *)

\* the step applies a privileged write of the call in slot s, whose actor's stored role is
\* not 'authority' (any more) when it is applied
MutatesUnauthorized(s) ==
    /\ running[s].pc \in {"save", "Center.findByIdAndUpdate", "deleteUser",
                          "Center.findByIdAndDelete"}
    /\ running'[s] /= running[s]
    /\ <<users, centers, accounts>>' /= <<users, centers, accounts>>
    /\ users[running[s].actor].role /= "authority"

\* C20: with privileged calls interleaving step by step, no role write, setting of
\* verified, account deletion or center deletion is applied while the acting user's
\* stored role is not 'authority': a call whose actor is demoted after its authorization
\* read does not go on to change anything.
C20_MutationsAuthorized == [][\A s \in Slots : ~MutatesUnauthorized(s)]_vars

----------------------------------------------------------------------------
(* C21 *)

\* the User records the call being answered created
CreatedUsers == DOMAIN users \ DOMAIN prev.users

\* the users who have 'authority' after the call being answered and had not before it
NewAuthorities ==
    {id \in DOMAIN users :
        /\ users[id].role = "authority"
        /\ id \in DOMAIN prev.users => prev.users[id].role /= "authority"}

NoAuthority(us) == \A id \in DOMAIN us : us[id].role /= "authority"

\* C21: 'authority' is obtained only through an authorized role assignment. A User record
\* is created by a successful signup only and with the role 'citizen'; a role becomes
\* 'authority' only in a successful updateUserRole that assigns it to its target and whose
\* actor's stored role was 'authority'; hence a call that finds no 'authority' user leaves
\* none.
C21_AuthorityOnlyAssigned ==
    /\ CreatedUsers /= {}
        => /\ last.op = "signup"
           /\ last.result.success
           /\ \A id \in CreatedUsers : users[id].role = "citizen"
           /\ last.payload.role = "citizen"
    /\ NewAuthorities /= {}
        => /\ last.op = "updateUserRole"
           /\ last.result.success
           /\ ActorIsAuthority
           /\ last.data.newRole = "authority"
           /\ NewAuthorities = {last.data.targetUserId}
    /\ NoAuthority(prev.users) => NoAuthority(users)

\* with no 'authority' user in the store, a signed-up citizen asked for 'authority' for
\* themselves and was refused
C21_Witness ==
    /\ last.op = "updateUserRole"
    /\ WellFormed
    /\ NoAuthority(prev.users)
    /\ Actor /= Null
    /\ last.data.targetUserId = Actor
    /\ last.data.newRole = "authority"
    /\ last.result = Failure(PermissionDenied)
    /\ NoAuthority(users)

====
